---- MODULE Spec2Model ----
(***************************************************************************)
(* Model of EmotionPredictor (server/image_utils.py): the request path     *)
(* predict_emotion -> detect_faces_multi_scale -> per-face preprocess and  *)
(* classify loop, with the cascade detector and the Keras model as         *)
(* environment choices.                                                    *)
(*                                                                         *)
(* A frame is a two-level grayscale image: every pixel has value bg except *)
(* the pixels of one axis-aligned patch, which have value fg.  Pixel       *)
(* variance of a region of such an image is computed exactly.  Wall-clock  *)
(* timing fields of the responses are not modelled.                        *)
(***************************************************************************)
EXTENDS Integers, Sequences, FiniteSets, TLC

(* ---------------------------- bounds ----------------------------------- *)

\* longest raw candidate list the cascade returns in the model
MaxRaw == 4

\* longest list handed to non_max_suppression in the model
MaxNms == 3

(* ----------------------- program constants ----------------------------- *)

MinFaceDim == 30
MaxFaceDim == 300
MaxFaces == 3
VarianceThreshold == 100

(* ------------------------- input universe ------------------------------ *)

Rect(x, y, w, h) == [x |-> x, y |-> y, w |-> w, h |-> h]

\* 320x140 frame, background 128, a 40x40 patch of value 168 at (30,30)
Frames ==
    { [width |-> 320, height |-> 140, bg |-> 128, fg |-> 168,
       patch |-> Rect(30, 30, 40, 40)] }

\* rectangles the cascade may report
RectPool ==
    { Rect(20, 20, 40, 40),     \* straddles the patch
      Rect(18, 18, 44, 44),     \* near-copy of the first
      Rect(30, 30, 100, 100),   \* contains the patch
      Rect(80, 30, 100, 100),   \* uniform background
      Rect(50, 50, 100, 100),   \* crosses the bottom edge of the frame
      Rect(10, 80, 300, 50),    \* elongated, uniform background
      Rect(5, 5, 10, 10),       \* below the size bound
      Rect(0, 0, 310, 100),     \* above the size bound
      Rect(330, 20, 40, 40) }   \* right of the frame

\* probability vectors (percent) the classifier may return
Predictions ==
    { <<70, 20, 10>>, <<10, 30, 60>>, <<40, 40, 20>> }

RawLists == UNION { [1..n -> RectPool] : n \in 0..MaxRaw }

(* ----------------------------- helpers --------------------------------- *)

Abs(n) == IF n < 0 THEN -n ELSE n
Min(a, b) == IF a < b THEN a ELSE b
Max(a, b) == IF a > b THEN a ELSE b

Area(r) == r.w * r.h

\* Python slice bound i on an axis of length n
SliceBound(i, n) == IF i < 0 THEN Max(i + n, 0) ELSE Min(i, n)

\* image[y:y+h, x:x+w]
face_roi(image, r) ==
    LET x0 == SliceBound(r.x, image.width)
        x1 == SliceBound(r.x + r.w, image.width)
        y0 == SliceBound(r.y, image.height)
        y1 == SliceBound(r.y + r.h, image.height)
    IN  [x0 |-> x0, x1 |-> Max(x1, x0), y0 |-> y0, y1 |-> Max(y1, y0)]

RoiSize(roi) == (roi.x1 - roi.x0) * (roi.y1 - roi.y0)

\* number of patch pixels inside a region
PatchPixels(image, roi) ==
    LET p  == image.patch
        ow == Max(0, Min(roi.x1, p.x + p.w) - Max(roi.x0, p.x))
        oh == Max(0, Min(roi.y1, p.y + p.h) - Max(roi.y0, p.y))
    IN  ow * oh

\* np.var(region) < t for a two-level image: with k of n pixels at fg,
\* var = k(n-k)(fg-bg)^2 / n^2.  fg-bg is a multiple of 10 in every frame
\* of the model and t is a multiple of 100, so both sides of the comparison
\* are divided by 100 to stay inside machine integers.
VarianceBelow(image, roi, t) ==
    LET n == RoiSize(roi)
        k == PatchPixels(image, roi)
        d == (image.fg - image.bg) \div 10
    IN  k * (n - k) * d * d < (t \div 100) * n * n

\* the region is uniform: np.var(region) = 0
VarianceZero(image, roi) ==
    LET n == RoiSize(roi)
        k == PatchPixels(image, roi)
    IN  k = 0 \/ k = n \/ image.fg = image.bg

(* -------------------- overlap and shape measures ----------------------- *)

\* lines 233-241: area of the intersection of two rectangles
Intersection(a, b) ==
    LET w == Max(0, Min(a.x + a.w, b.x + b.w) - Max(a.x, b.x))
        h == Max(0, Min(a.y + a.h, b.y + b.h) - Max(a.y, b.y))
    IN  w * h

\* lines 244-245
Union(a, b) == Area(a) + Area(b) - Intersection(a, b)

\* overlap_threshold = 0.3, in tenths
OverlapThresholdTenths == 3

\* overlap_ratio > overlap_threshold
overlap_exceeds(a, b) ==
    10 * Intersection(a, b) > OverlapThresholdTenths * Union(a, b)

\* line 245-248: intersection / union > t, with t in tenths
overlap_ratio_exceeds(a, b, t) ==
    10 * Intersection(a, b) > t * Union(a, b)

\* lines 168-169: 0.6 <= w / h <= 1.4
aspect_ratio_ok(r) == 6 * r.h <= 10 * r.w /\ 10 * r.w <= 14 * r.h

(* ------------------- detect_faces_multi_scale -------------------------- *)

size_ok(r) ==
    /\ MinFaceDim <= r.w /\ r.w <= MaxFaceDim
    /\ MinFaceDim <= r.h /\ r.h <= MaxFaceDim

\* variant with a fixed 10 pixel tolerance instead of w//2 and h//2
is_duplicate_fixed_tolerance(r, filtered_faces) ==
    \E j \in 1..Len(filtered_faces) :
        /\ Abs(r.x - filtered_faces[j].x) < 10
        /\ Abs(r.y - filtered_faces[j].y) < 10

\* lines 138-143: quick overlap check against the faces kept so far
is_duplicate(r, filtered_faces) ==
    \E j \in 1..Len(filtered_faces) :
        /\ Abs(r.x - filtered_faces[j].x) < r.w \div 2
        /\ Abs(r.y - filtered_faces[j].y) < r.h \div 2

RECURSIVE filter_loop(_, _, _)
filter_loop(faces, k, filtered_faces) ==
    IF k > Len(faces) THEN filtered_faces
    ELSE IF size_ok(faces[k]) /\ ~is_duplicate(faces[k], filtered_faces)
         THEN filter_loop(faces, k + 1, Append(filtered_faces, faces[k]))
         ELSE filter_loop(faces, k + 1, filtered_faces)

\* filtered_faces[:n]
Take(s, n) == SubSeq(s, 1, Min(n, Len(s)))

\* variant without the [:3] slice
detect_faces_multi_scale_uncapped(cascade_raises, faces) ==
    IF cascade_raises THEN << >>
    ELSE IF Len(faces) > 0
         THEN filter_loop(faces, 1, << >>)
         ELSE << >>

\* cascade_raises: detectMultiScale raised; faces: what it returned
detect_faces_multi_scale(cascade_raises, faces) ==
    IF cascade_raises THEN << >>
    ELSE IF Len(faces) > 0
         THEN Take(filter_loop(faces, 1, << >>), MaxFaces)
         ELSE << >>

(* ------------------------ non_max_suppression -------------------------- *)

\* rectangles handed to non_max_suppression in the model
NmsPool ==
    { Rect(0, 0, 40, 40),
      Rect(5, 5, 40, 40),       \* same area, IoU 0.62 with the first
      Rect(20, 0, 40, 40),      \* same area, IoU 0.33 with the first
      Rect(30, 30, 60, 60),     \* larger, small overlaps
      Rect(100, 100, 40, 40) }  \* disjoint from all

NmsLists == UNION { [1..n -> NmsPool] : n \in 0..MaxNms }

\* overlap_threshold values, in tenths
NmsThresholds == { 0, 3, 5, 10 }

Reverse(s) == [ k \in 1..Len(s) |-> s[Len(s) + 1 - k] ]

\* np.argsort(areas): an index order with ascending areas.  The default
\* sort kind is not stable, so the order among equal areas is any.
ArgsortOutcomes(fs) ==
    { p \in [1..Len(fs) -> 1..Len(fs)] :
        /\ \A a, b \in 1..Len(fs) : a # b => p[a] # p[b]
        /\ \A a \in 1..(Len(fs) - 1) : Area(fs[p[a]]) <= Area(fs[p[a + 1]]) }

\* variant whose mask is dropped: nothing is suppressed
RECURSIVE nms_loop_keep_all(_, _, _, _)
nms_loop_keep_all(fs, indices, keep, t) ==
    IF Len(indices) = 0 THEN keep
    ELSE IF Len(indices) = 1 THEN Append(keep, indices[1])
         ELSE nms_loop_keep_all(fs, Tail(indices),
                                Append(keep, indices[1]), t)

\* variant whose single-element break comes before keep.append
RECURSIVE nms_loop_early_break(_, _, _, _)
nms_loop_early_break(fs, indices, keep, t) ==
    IF Len(indices) = 0 THEN keep
    ELSE IF Len(indices) = 1 THEN keep
         ELSE LET current == indices[1]
                  rest == SelectSeq(Tail(indices),
                              LAMBDA j :
                                ~overlap_ratio_exceeds(fs[current], fs[j], t))
              IN  nms_loop_early_break(fs, rest, Append(keep, current), t)

\* lines 221-248: the while loop over indices
RECURSIVE nms_loop(_, _, _, _)
nms_loop(fs, indices, keep, t) ==
    IF Len(indices) = 0 THEN keep
    ELSE LET current == indices[1]
             keep2   == Append(keep, current)
         IN  IF Len(indices) = 1 THEN keep2
             ELSE LET rest == SelectSeq(Tail(indices),
                                LAMBDA j :
                                  ~overlap_ratio_exceeds(fs[current], fs[j], t))
                  IN  nms_loop(fs, rest, keep2, t)

\* the list keep; order is the outcome of np.argsort(areas)
nms_keep_indices(fs, t, order) ==
    IF Len(fs) = 0 THEN << >>
    ELSE nms_loop(fs, Reverse(order), << >>, t)

\* [faces[i] for i in keep]
non_max_suppression(fs, t, order) ==
    LET keep == nms_keep_indices(fs, t, order)
    IN  [ k \in 1..Len(keep) |-> fs[keep[k]] ]

(* --------------------- preprocess_face_for_model ----------------------- *)

\* TRUE when a tensor is returned, FALSE when None is returned: cv2.resize
\* raises on an empty crop, and may raise for reasons of its own
preprocess_face_for_model(image, roi, resize_raises) ==
    RoiSize(roi) > 0 /\ ~resize_raises

(* --------------------------- predict_emotion --------------------------- *)

emotion_labels == <<"happy", "sad", "neutral">>

MaxOf(v) == CHOOSE m \in { v[j] : j \in 1..Len(v) } :
                \A j \in 1..Len(v) : v[j] <= m

\* variant picking the smallest entry
argmin(v) == CHOOSE j \in 1..Len(v) : \A l \in 1..Len(v) : v[j] <= v[l]

\* np.argmax: the first index holding the maximum (1-based here)
argmax(v) == CHOOSE j \in 1..Len(v) :
                /\ v[j] = MaxOf(v)
                /\ \A l \in 1..(j - 1) : v[l] < MaxOf(v)

emotion_result(i, r, prediction) ==
    [ face_id         |-> i,
      bounding_box    |-> r,
      emotion         |-> emotion_labels[argmax(prediction)],
      confidence      |-> MaxOf(prediction),
      all_predictions |->
          [ l \in { emotion_labels[j] : j \in 1..Len(prediction) } |->
              prediction[CHOOSE j \in 1..Len(prediction) :
                             emotion_labels[j] = l] ] ]

\* variant reporting the empty detection as a success
no_face_response_success ==
    [ success |-> TRUE, message |-> "No face detected",
      faces_detected |-> 0, emotions |-> << >> ]

no_face_response ==
    [ success |-> FALSE, message |-> "No face detected",
      faces_detected |-> 0, emotions |-> << >> ]

\* variant counting the predictions instead of the detected faces
success_response_counts_results(fs, res) ==
    [ success |-> TRUE, message |-> "Successfully detected",
      faces_detected |-> Len(res), emotions |-> res ]

success_response(fs, res) ==
    [ success |-> TRUE, message |-> "Successfully detected",
      faces_detected |-> Len(fs), emotions |-> res ]

\* variant returning the predictions collected before the exception
error_response_partial(res) ==
    [ success |-> FALSE, message |-> "Error during prediction",
      faces_detected |-> 0, emotions |-> res ]

\* the except branch; res is the local list built so far
error_response(res) ==
    [ success |-> FALSE, message |-> "Error during prediction",
      faces_detected |-> 0, emotions |-> << >> ]

NoResponse ==
    [ success |-> FALSE, message |-> "", faces_detected |-> 0,
      emotions |-> << >> ]

(* ------------------------------ state ---------------------------------- *)

VARIABLES
    pc,              \* "idle", "loop", "done"
    image,           \* the frame of the current request
    raw,             \* what detectMultiScale returned
    cascade_failed,  \* detectMultiScale raised
    faces,           \* result of detect_faces_multi_scale
    i,               \* 1-based position of the loop over faces
    processed,       \* per visited face: preprocess returned a tensor
    results,         \* the local list results
    predict_failed,  \* model.predict raised
    response,        \* the dict returned by predict_emotion
    predicted        \* what model.predict returned, per classified face

\* a call of non_max_suppression and a second call on its result
VARIABLES
    nms_pc,          \* "idle", "returned", "again"
    nms_faces,       \* the argument faces
    nms_threshold,   \* the argument overlap_threshold, in tenths
    nms_keep,        \* the list keep of the first call
    nms_out,         \* the list returned by the first call
    nms_again        \* the list returned by the call on nms_out

nms_vars == << nms_pc, nms_faces, nms_threshold, nms_keep, nms_out,
               nms_again >>

vars == << pc, image, raw, cascade_failed, faces, i, processed, results,
           predict_failed, response, predicted, nms_pc, nms_faces,
           nms_threshold, nms_keep, nms_out, nms_again >>

request_vars == << pc, image, raw, cascade_failed, faces, i, processed,
                   results, predict_failed, response, predicted >>

AnyFrame == CHOOSE f \in Frames : TRUE

Init ==
    /\ pc = "idle"
    /\ image = AnyFrame
    /\ raw = << >>
    /\ cascade_failed = FALSE
    /\ faces = << >>
    /\ i = 1
    /\ processed = << >>
    /\ results = << >>
    /\ predict_failed = FALSE
    /\ response = NoResponse
    /\ predicted = << >>
    /\ nms_pc = "idle"
    /\ nms_faces = << >>
    /\ nms_threshold = OverlapThresholdTenths
    /\ nms_keep = << >>
    /\ nms_out = << >>
    /\ nms_again = << >>

\* variant in which an exception of the cascade is not caught by
\* detect_faces_multi_scale and reaches the except branch of predict_emotion
Detect_propagates(img, cascade_raises, rawfaces) ==
    /\ pc = "idle"
    /\ image' = img
    /\ raw' = rawfaces
    /\ cascade_failed' = cascade_raises
    /\ faces' = detect_faces_multi_scale(cascade_raises, rawfaces)
    /\ i' = 1
    /\ processed' = << >>
    /\ results' = << >>
    /\ predict_failed' = FALSE
    /\ predicted' = << >>
    /\ UNCHANGED nms_vars
    /\ IF cascade_raises
       THEN /\ response' = error_response(<< >>)
            /\ pc' = "done"
       ELSE IF Len(faces') = 0
            THEN /\ response' = no_face_response
                 /\ pc' = "done"
            ELSE /\ response' = NoResponse
                 /\ pc' = "loop"

\* lines 286-298: detection, and the early return when no face is left
Detect(img, cascade_raises, rawfaces) ==
    /\ pc = "idle"
    /\ image' = img
    /\ raw' = rawfaces
    /\ cascade_failed' = cascade_raises
    /\ faces' = detect_faces_multi_scale(cascade_raises, rawfaces)
    /\ i' = 1
    /\ processed' = << >>
    /\ results' = << >>
    /\ predict_failed' = FALSE
    /\ predicted' = << >>
    /\ UNCHANGED nms_vars
    /\ IF Len(faces') = 0
       THEN /\ response' = no_face_response
            /\ pc' = "done"
       ELSE /\ response' = NoResponse
            /\ pc' = "loop"

\* variant in which a preprocessing failure ends the request in the
\* except branch instead of skipping the face
SkipFace_aborts(resize_raises) ==
    /\ pc = "loop"
    /\ i <= Len(faces)
    /\ ~preprocess_face_for_model(image, face_roi(image, faces[i]),
                                  resize_raises)
    /\ processed' = Append(processed, FALSE)
    /\ response' = error_response(results)
    /\ pc' = "done"
    /\ UNCHANGED << image, raw, cascade_failed, faces, i, results,
                    predict_failed, predicted >>
    /\ UNCHANGED nms_vars

\* lines 303-310: preprocessing returned None, the face is skipped
SkipFace(resize_raises) ==
    /\ pc = "loop"
    /\ i <= Len(faces)
    /\ ~preprocess_face_for_model(image, face_roi(image, faces[i]),
                                  resize_raises)
    /\ processed' = Append(processed, FALSE)
    /\ i' = i + 1
    /\ UNCHANGED << pc, image, raw, cascade_failed, faces, results,
                    predict_failed, response, predicted >>
    /\ UNCHANGED nms_vars

\* lines 310-337: the face is classified and its result appended
ClassifyFace(resize_raises, prediction) ==
    /\ pc = "loop"
    /\ i <= Len(faces)
    /\ preprocess_face_for_model(image, face_roi(image, faces[i]),
                                 resize_raises)
    /\ processed' = Append(processed, TRUE)
    /\ results' = Append(results, emotion_result(i, faces[i], prediction))
    /\ predicted' = Append(predicted, prediction)
    /\ i' = i + 1
    /\ UNCHANGED << pc, image, raw, cascade_failed, faces, predict_failed,
                    response >>
    /\ UNCHANGED nms_vars

\* lines 313, 354-361: model.predict raises, the except branch answers
ClassifierRaises(resize_raises) ==
    /\ pc = "loop"
    /\ i <= Len(faces)
    /\ preprocess_face_for_model(image, face_roi(image, faces[i]),
                                 resize_raises)
    /\ processed' = Append(processed, TRUE)
    /\ predict_failed' = TRUE
    /\ response' = error_response(results)
    /\ pc' = "done"
    /\ UNCHANGED << image, raw, cascade_failed, faces, i, results,
                    predicted >>
    /\ UNCHANGED nms_vars

\* lines 339-352: every face visited, the success response is returned
Finish ==
    /\ pc = "loop"
    /\ i > Len(faces)
    /\ response' = success_response(faces, results)
    /\ pc' = "done"
    /\ UNCHANGED << image, raw, cascade_failed, faces, i, processed,
                    results, predict_failed, predicted >>
    /\ UNCHANGED nms_vars

\* lines 122-128: detectMultiScale returns a list of rectangles
CascadeReturns ==
    /\ pc = "idle"
    /\ \E img \in Frames, rawfaces \in RawLists :
           Detect(img, FALSE, rawfaces)

\* lines 152-154: detectMultiScale raises and the empty list is returned
CascadeRaises ==
    /\ pc = "idle"
    /\ \E img \in Frames : Detect(img, TRUE, << >>)

Next ==
    \/ CascadeReturns
    \/ CascadeRaises
    \/ \E rr \in BOOLEAN : SkipFace(rr)
    \/ \E p \in Predictions : ClassifyFace(FALSE, p)
    \/ ClassifierRaises(FALSE)
    \/ Finish

Spec == Init /\ [][Next]_vars

(* ------------- requests on the 100x100 example frame ------------------- *)

\* 100x100 frame, background 128, a 40x40 patch at (20,20)
ExampleFrame ==
    [ width |-> 100, height |-> 100, bg |-> 128, fg |-> 168,
      patch |-> Rect(20, 20, 40, 40) ]

ExampleRaw ==
    << Rect(18, 18, 44, 44), Rect(20, 20, 40, 40), Rect(0, 0, 99, 99) >>

\* the example rectangles in every order and multiplicity
ExampleLists ==
    UNION { [1..n -> { ExampleRaw[k] : k \in 1..Len(ExampleRaw) }] :
                n \in 0..Len(ExampleRaw) }

\* lines 122-128: detectMultiScale returns example rectangles
CascadeReturnsExample ==
    /\ pc = "idle"
    /\ \E rawfaces \in ExampleLists : Detect(ExampleFrame, FALSE, rawfaces)

NextExample ==
    \/ CascadeReturnsExample
    \/ \E rr \in BOOLEAN : SkipFace(rr)
    \/ \E p \in Predictions : ClassifyFace(FALSE, p)
    \/ ClassifierRaises(FALSE)
    \/ Finish

SpecExample == Init /\ [][NextExample]_vars

(* ------------- non_max_suppression called on its own ------------------- *)

\* lines 203-250: one call, with any tie order of np.argsort
NmsCall ==
    /\ nms_pc = "idle"
    /\ \E fs \in NmsLists, t \in NmsThresholds :
           \E order \in ArgsortOutcomes(fs) :
               /\ nms_faces' = fs
               /\ nms_threshold' = t
               /\ nms_keep' = nms_keep_indices(fs, t, order)
               /\ nms_out' = non_max_suppression(fs, t, order)
    /\ nms_pc' = "returned"
    /\ UNCHANGED << nms_again, request_vars >>

\* lines 203-250: a call on the list the first call returned
NmsCallAgain ==
    /\ nms_pc = "returned"
    /\ \E order \in ArgsortOutcomes(nms_out) :
           nms_again' = non_max_suppression(nms_out, nms_threshold, order)
    /\ nms_pc' = "again"
    /\ UNCHANGED << nms_faces, nms_threshold, nms_keep, nms_out,
                    request_vars >>

NextNms ==
    \/ NmsCall
    \/ NmsCallAgain

SpecNms == Init /\ [][NextNms]_vars

(* ------------------------------ claims --------------------------------- *)

\* bounding boxes of the predictions of a response, in order
Boxes(ems) == [ k \in 1..Len(ems) |-> ems[k].bounding_box ]

\* the faces whose preprocessing returned a tensor, in order
RECURSIVE PreprocessedFaces(_, _, _)
PreprocessedFaces(fs, ok, k) ==
    IF k > Len(fs) \/ k > Len(ok) THEN << >>
    ELSE IF ok[k] THEN << fs[k] >> \o PreprocessedFaces(fs, ok, k + 1)
         ELSE PreprocessedFaces(fs, ok, k + 1)

\* C1: when model.predict raises on any face, predict_emotion still returns
\* a response, with success false, the error message and no predictions,
\* whatever had been classified before.
C1_ClassifierFailureAllOrNothing ==
    (pc = "done" /\ predict_failed) =>
        /\ response.success = FALSE
        /\ response.message = "Error during prediction"
        /\ response.emotions = << >>

\* the classifier raised on the third face after two were classified
C1_Witness ==
    /\ pc = "done"
    /\ predict_failed
    /\ Len(results) = 2
    /\ Len(processed) = 3
    /\ response.emotions = << >>

\* C2: with a non-empty face list and any subset of faces failing
\* preprocessing (the classifier itself answering), the response is a
\* success whose predictions are exactly the faces that were preprocessed,
\* one each and in face-list order; a face with an empty crop is never one.
C2_PartialFailureTolerated ==
    (pc = "done" /\ ~predict_failed /\ Len(faces) > 0) =>
        /\ response.success = TRUE
        /\ Len(processed) = Len(faces)
        /\ Boxes(response.emotions) = PreprocessedFaces(faces, processed, 1)
        /\ \A j \in 1..Len(faces) :
               RoiSize(face_roi(image, faces[j])) = 0 => ~processed[j]

\* two faces, the second fails preprocessing, exactly one prediction
C2_Witness ==
    /\ pc = "done"
    /\ Len(faces) = 2
    /\ processed = << TRUE, FALSE >>
    /\ response.success = TRUE
    /\ Len(response.emotions) = 1

\* C3 as stated: an empty cascade result gives success = true,
\* faces_detected = 0 and no predictions.
C3_NoFaceIsSuccess ==
    (pc = "done" /\ ~cascade_failed /\ raw = << >>) =>
        /\ response.success = TRUE
        /\ response.faces_detected = 0
        /\ response.emotions = << >>

\* C3 amended: an empty cascade result gives success = false with the
\* message "No face detected", faces_detected = 0 and no predictions.
C3_NoFaceResponse ==
    (pc = "done" /\ ~cascade_failed /\ raw = << >>) =>
        /\ response.success = FALSE
        /\ response.message = "No face detected"
        /\ response.faces_detected = 0
        /\ response.emotions = << >>

\* the cascade returned the empty list and the request was answered
C3_Witness ==
    /\ pc = "done"
    /\ ~cascade_failed
    /\ raw = << >>
    /\ faces = << >>

\* C4: in a success response faces_detected is the number of faces that
\* survived filtering, whatever the number of predictions.
C4_FacesDetectedCountsSurvivors ==
    (pc = "done" /\ response.success) =>
        /\ response.faces_detected = Len(faces)
        /\ response.faces_detected =
               Len(detect_faces_multi_scale(cascade_failed, raw))

\* three survivors, two of them skipped: faces_detected 3, one prediction
C4_Witness ==
    /\ pc = "done"
    /\ response.success
    /\ Len(faces) = 3
    /\ Len(response.emotions) = 1
    /\ response.faces_detected = 3

\* C5: the face_id values of the predictions of a response are exactly
\* 1..N for N predictions.
C5_FaceIdsDense ==
    pc = "done" =>
        \A k \in 1..Len(response.emotions) :
            response.emotions[k].face_id = k

\* C6: no two faces classified in a request have intersection-over-union
\* above the overlap threshold 0.3.
C6_NoOverlapAboveThreshold ==
    pc = "done" =>
        \A a, b \in 1..Len(response.emotions) :
            a < b => ~overlap_exceeds(response.emotions[a].bounding_box,
                                      response.emotions[b].bounding_box)

\* C7: the face list predict_emotion processes has at most 3 entries, so a
\* response has at most 3 predictions and faces_detected at most 3.
C7_Cap ==
    /\ Len(faces) <= 3
    /\ Len(results) <= 3
    /\ Len(response.emotions) <= 3
    /\ response.faces_detected <= 3

\* four candidates passed the size and duplicate tests, three were answered
C7_Witness ==
    /\ pc = "done"
    /\ ~cascade_failed
    /\ Len(filter_loop(raw, 1, << >>)) = 4
    /\ Len(faces) = 3
    /\ Len(response.emotions) = 3

\* C8: when more than 3 candidates pass filtering, no discarded one has a
\* strictly larger area than a kept one.
C8_LargestAreaKept ==
    (pc # "idle" /\ ~cascade_failed) =>
        LET passed == filter_loop(raw, 1, << >>)
        IN  Len(passed) > 3 =>
                \A d \in (Len(faces) + 1)..Len(passed) :
                    \A k \in 1..Len(faces) :
                        Area(passed[d]) <= Area(faces[k])

\* C9: a raw candidate whose width/height ratio is outside [0.6, 1.4] is
\* never among the faces predict_emotion classifies or reports.
C9_AspectRatioBound ==
    pc = "done" =>
        \A k \in 1..Len(response.emotions) :
            aspect_ratio_ok(response.emotions[k].bounding_box)

\* C10: a raw candidate whose region of the frame is uniform (variance 0)
\* is never among the faces predict_emotion classifies or reports.
C10_UniformRegionDiscarded ==
    pc = "done" =>
        \A k \in 1..Len(response.emotions) :
            LET roi == face_roi(image, response.emotions[k].bounding_box)
            IN  ~(RoiSize(roi) > 0 /\ VarianceZero(image, roi))

\* C11: every bounding box reported by predict_emotion lies inside the
\* frame: x >= 0, y >= 0, x + width <= frame width, y + height <= frame
\* height.
C11_BoxesInsideFrame ==
    pc = "done" =>
        \A k \in 1..Len(response.emotions) :
            LET b == response.emotions[k].bounding_box
            IN  /\ b.x >= 0
                /\ b.y >= 0
                /\ b.x + b.w <= image.width
                /\ b.y + b.h <= image.height

\* number of positions of a list holding the rectangle r
Count(s, r) == Cardinality({ k \in 1..Len(s) : s[k] = r })

\* C12: for every input list and threshold, every two candidates returned
\* by non_max_suppression have IoU <= overlap_threshold, and the result
\* holds only rectangles of the input, each at most as often as the input.
C12_NmsOverlapInvariant ==
    nms_pc # "idle" =>
        /\ \A a, b \in 1..Len(nms_out) :
               a < b =>
                   10 * Intersection(nms_out[a], nms_out[b])
                       <= nms_threshold * Union(nms_out[a], nms_out[b])
        /\ \A k \in 1..Len(nms_out) :
               /\ \E j \in 1..Len(nms_faces) : nms_out[k] = nms_faces[j]
               /\ Count(nms_out, nms_out[k]) <= Count(nms_faces, nms_out[k])

\* three distinct candidates at threshold 0.3, one suppressed, two returned
C12_Witness ==
    /\ nms_pc = "returned"
    /\ nms_threshold = 3
    /\ Len(nms_faces) = 3
    /\ Cardinality({ nms_faces[k] : k \in 1..3 }) = 3
    /\ Len(nms_out) = 2

\* C13: non_max_suppression applied to its own result, same threshold,
\* returns the same candidates: nothing more is suppressed.
C13_NmsIdempotent ==
    nms_pc = "again" =>
        /\ Len(nms_again) = Len(nms_out)
        /\ \A r \in NmsPool : Count(nms_again, r) = Count(nms_out, r)

\* a second call on a two-element result of a suppressing first call
C13_Witness ==
    /\ nms_pc = "again"
    /\ Len(nms_faces) = 3
    /\ Len(nms_out) = 2
    /\ Len(nms_again) = 2

\* C14: of two equal-area candidates overlapping above the threshold, the
\* one earlier in the input is selected first and kept, the later one is
\* suppressed.
C14_EarlierOfTieKept ==
    ( /\ nms_pc # "idle"
      /\ Len(nms_faces) = 2
      /\ Area(nms_faces[1]) = Area(nms_faces[2])
      /\ overlap_ratio_exceeds(nms_faces[1], nms_faces[2], nms_threshold) )
        => nms_out = << nms_faces[1] >>

\* C15: in every prediction of a response the emotion is the label of a
\* class of maximum probability in the vector model.predict returned for
\* that face, confidence is that maximum, and all_predictions maps every
\* class label to its probability in the same vector.
C15_LabelIsArgmax ==
    pc = "done" =>
        \A k \in 1..Len(response.emotions) :
            LET e == response.emotions[k]
                v == predicted[k]
            IN  /\ \A j \in 1..3 : v[j] <= e.confidence
                /\ \/ e.emotion = "happy" /\ v[1] = e.confidence
                   \/ e.emotion = "sad" /\ v[2] = e.confidence
                   \/ e.emotion = "neutral" /\ v[3] = e.confidence
                /\ DOMAIN e.all_predictions = { "happy", "sad", "neutral" }
                /\ e.all_predictions["happy"] = v[1]
                /\ e.all_predictions["sad"] = v[2]
                /\ e.all_predictions["neutral"] = v[3]

\* a response whose first prediction came from the vector (10, 30, 60)
C15_Witness ==
    /\ pc = "done"
    /\ Len(response.emotions) >= 1
    /\ predicted[1] = << 10, 30, 60 >>
    /\ response.emotions[1].emotion = "neutral"
    /\ response.emotions[1].confidence = 60

\* C16: on the 100x100 frame with the cascade returning (18,18,44,44),
\* (20,20,40,40), (0,0,99,99) in that order, the face list has exactly one
\* entry, one of the first two rectangles, and not (0,0,99,99).
C16_EndToEndExample ==
    (pc # "idle" /\ image = ExampleFrame /\ raw = ExampleRaw) =>
        /\ Len(faces) = 1
        /\ faces[1] \in { Rect(18, 18, 44, 44), Rect(20, 20, 40, 40) }
        /\ \A j \in 1..Len(faces) : faces[j] # Rect(0, 0, 99, 99)
        /\ (pc = "done" /\ response.success) => response.faces_detected = 1

\* the example request answered with its single face classified
C16_Witness ==
    /\ pc = "done"
    /\ image = ExampleFrame
    /\ raw = ExampleRaw
    /\ response.success
    /\ Len(response.emotions) = 1

\* twice the centre coordinates of a rectangle
Centre2(r) == [ x |-> 2 * r.x + r.w, y |-> 2 * r.y + r.h ]

\* the centre of r lies within half the width and half the height of r
\* of the centre of a kept rectangle
centre_duplicate(r, kept) ==
    \E j \in 1..Len(kept) :
        /\ Abs(Centre2(r).x - Centre2(kept[j]).x) < r.w
        /\ Abs(Centre2(r).y - Centre2(kept[j]).y) < r.h

RECURSIVE centre_filter(_, _, _)
centre_filter(fs, k, kept) ==
    IF k > Len(fs) THEN kept
    ELSE IF size_ok(fs[k]) /\ ~centre_duplicate(fs[k], kept)
         THEN centre_filter(fs, k + 1, Append(kept, fs[k]))
         ELSE centre_filter(fs, k + 1, kept)

\* C17: the duplicate removal of detect_faces_multi_scale drops a
\* size-valid candidate exactly when its centre is within half its width
\* and half its height of the centre of a kept candidate, and for a pair
\* of candidates the outcome is the same in either cascade order.
C17_CentreDeduplication ==
    (pc # "idle" /\ ~cascade_failed) =>
        /\ filter_loop(raw, 1, << >>) = centre_filter(raw, 1, << >>)
        /\ Len(raw) = 2 =>
               Len(filter_loop(raw, 1, << >>))
                   = Len(filter_loop(Reverse(raw), 1, << >>))

\* C18: when detectMultiScale raises, the face list is empty and
\* predict_emotion returns the no-face response, with no error message.
C18_CascadeFailureIsNoFace ==
    (pc = "done" /\ cascade_failed) =>
        /\ faces = << >>
        /\ ~predict_failed
        /\ response = [ success |-> FALSE, message |-> "No face detected",
                        faces_detected |-> 0, emotions |-> << >> ]

\* a request whose cascade call raised has been answered
C18_Witness ==
    /\ pc = "done"
    /\ cascade_failed
    /\ response.message = "No face detected"

====
